---- MODULE Spec2Model ----
(***************************************************************************)
(* Piecewise flat forward curve (fms_pwflat.h).                            *)
(*                                                                         *)
(* The state is one owning curve (the vectors t_ and f_), built by         *)
(* push_back from the empty curve, and the record of the last call made    *)
(* on it: the kernel that ran, its arguments, and what it returned.  The   *)
(* kernels are called the way interface<T,F> calls them, on size(),        *)
(* time() and rate() of the curve.                                         *)
(*                                                                         *)
(* Numbers.  Times (type T) and rates are integers on a grid.  A value of  *)
(* type F is either NaN or an exact real of the form                       *)
(*        sum over k of  q_k * e^k        (q_k rational, k integer)        *)
(* kept as a function from the exponents k to the non-zero coefficients;   *)
(* an ordinary number q is q * e^0.  Different such sums are different     *)
(* reals, so equality of two F values is decided exactly.  Rounding,       *)
(* overflow and infinities are not modelled.                               *)
(***************************************************************************)
EXTENDS Integers, Sequences, FiniteSets, TLC

\* Largest number of knots the curve is grown to.
MaxN == 2
\* Largest number of cash flows of one instrument.
MaxM == 2

\* The grid: knot times (non-negative, as the curve's builder must deliver
\* them), query and cash-flow times (one negative, one past every knot),
\* knot rates and cash-flow amounts.
Times == 0 .. 2
QueryTimes == -1 .. 3
Rates == {1, 2}
Amounts == {0, 2}

---------------------------------------------------------------------------
\* Values of type F: NaN, or (sum over k of tm[k] * e^k) / den, with integer
\* exponents k, non-zero integer coefficients tm[k] and den > 0 with no
\* factor common to all the coefficients.

RECURSIVE GCD(_, _)
GCD(a, b) == IF b = 0 THEN a ELSE GCD(b, a % b)

Abs(x) == IF x < 0 THEN -x ELSE x

RECURSIVE GCDOver(_, _, _)
\* The greatest common divisor of d and the g[k], k in S.
GCDOver(d, S, g) ==
    IF S = {} \/ d = 1 THEN d
    ELSE LET k == CHOOSE x \in S : TRUE
         IN  GCDOver(GCD(d, Abs(g[k])), S \ {k}, g)

RECURSIVE IntSum(_, _)
\* The sum of g[x] over the finite set S.
IntSum(S, g) ==
    IF S = {} THEN 0
    ELSE LET x == CHOOSE y \in S : TRUE
         IN  g[x] + IntSum(S \ {x}, g)

NaN == [nan |-> TRUE, den |-> 1, tm |-> [k \in {} |-> 0]]

\* (sum over k in S of g[k] * e^k) / d for d > 0, in lowest terms.
Real(d, S, g) ==
    LET K == {k \in S : g[k] # 0}
        c == GCDOver(d, K, g)
    IN  [nan |-> FALSE, den |-> d \div c, tm |-> [k \in K |-> g[k] \div c]]

\* The integer x as an F.
Num(x) == [nan |-> FALSE, den |-> 1, tm |-> [k \in {j \in {0} : x # 0} |-> x]]

isnan(x) == x.nan

Coef(x, k) == IF k \in DOMAIN x.tm THEN x.tm[k] ELSE 0

\* x is an integer (no e^k with k # 0, no denominator).
IsInteger(x) == ~x.nan /\ x.den = 1 /\ (DOMAIN x.tm) \subseteq {0}

FAdd(a, b) ==
    IF a.nan \/ b.nan THEN NaN
    ELSE LET S == (DOMAIN a.tm) \cup (DOMAIN b.tm)
         IN  Real(a.den * b.den, S,
                  [k \in S |-> Coef(a, k) * b.den + Coef(b, k) * a.den])

FNeg(a) ==
    IF a.nan THEN NaN
    ELSE [nan |-> FALSE, den |-> a.den, tm |-> [k \in DOMAIN a.tm |-> -a.tm[k]]]

FSub(a, b) == FAdd(a, FNeg(b))

\* NaN times anything is NaN, zero included.
FMul(a, b) ==
    IF a.nan \/ b.nan THEN NaN
    ELSE LET P == (DOMAIN a.tm) \X (DOMAIN b.tm)
             S == {p[1] + p[2] : p \in P}
         IN  Real(a.den * b.den, S,
                  [k \in S |-> IntSum({p \in P : p[1] + p[2] = k},
                                      [p \in P |-> a.tm[p[1]] * b.tm[p[2]]])])

\* a / u for a time u.  NaN / u and 0 / 0 are NaN; x / 0 for x # 0 is an
\* infinity and has no value here.
FDiv(a, u) ==
    CASE a.nan -> NaN
      [] ~a.nan /\ u > 0 -> Real(a.den * u, DOMAIN a.tm, a.tm)
      [] ~a.nan /\ u < 0 -> Real(a.den * (-u), DOMAIN a.tm, FNeg(a).tm)
      [] ~a.nan /\ u = 0 /\ DOMAIN a.tm = {} -> NaN

\* exp of NaN is NaN; exp of an integer k is e^k.  The code takes exp of
\* minus the integral only, an integer on the grid.
exp(x) ==
    CASE x.nan -> NaN
      [] IsInteger(x) ->
            [nan |-> FALSE, den |-> 1, tm |-> [k \in {Coef(x, 0)} |-> 1]]

---------------------------------------------------------------------------
\* Arrays.  A kernel gets an array as a pointer and a count.  A pointer is
\* the n elements a it points at and g, what the memory holds at every
\* other index: reading there is undefined behaviour, and g is one of the
\* values such a read can produce.

Ptr(a, g) == [a |-> a, g |-> g]

InRange(p, k) == 0 <= k /\ k < Len(p.a)

\* t[k] for an array of times.
AtT(p, k) == IF InRange(p, k) THEN p.a[k + 1] ELSE p.g

\* f[k] for an array of rates.
AtF(p, k) == IF InRange(p, k) THEN Num(p.a[k + 1]) ELSE p.g

\* What a read past the end of an array of times can produce: a time below
\* every query time (a NaN compares the same way in spot) or a time among them.
GarbageT == {-2, 1}
\* What a read past the end of an array of rates can produce: a finite
\* number or NaN.
GarbageF == {Num(1), NaN}

\* The extrapolated rate _f a caller passes: none (the NaN default) or a
\* rate that is no knot's rate.
ExtRates == {NaN, Num(3)}

---------------------------------------------------------------------------
\* monotonic

\* Mutant of not_increasing: an equal pair passes.
not_increasing_strict(t0, t1) == t0 > t1

\* The comparison adjacent_find is given: the pair is not increasing.
not_increasing(t0, t1) == t0 >= t1

RECURSIVE adjacent_find(_, _, _)
\* std::adjacent_find(b, e, pred) on v[first..last): the first index whose
\* element and successor satisfy pred, or last.
adjacent_find(v, first, last) ==
    IF first = last \/ first + 1 = last THEN last
    ELSE IF not_increasing(AtT(v, first), AtT(v, first + 1)) THEN first
    ELSE adjacent_find(v, first + 1, last)

monotonic(n, v) == adjacent_find(v, 0, n) = n

---------------------------------------------------------------------------
\* value

RECURSIVE lower_bound_loop(_, _, _, _, _)
lower_bound_loop(p, first, len, val, rd) ==
    IF len <= 0 THEN [pos |-> first, rd |-> rd]
    ELSE LET half == len \div 2
             middle == first + half
         IN  IF AtT(p, middle) < val
             THEN lower_bound_loop(p, middle + 1, len - half - 1, val, rd \cup {middle})
             ELSE lower_bound_loop(p, first, half, val, rd \cup {middle})

RECURSIVE upper_bound_loop(_, _, _, _, _)
upper_bound_loop(p, first, len, val, rd) ==
    IF len <= 0 THEN [pos |-> first, rd |-> rd]
    ELSE LET half == len \div 2
             middle == first + half
         IN  IF AtT(p, middle) <= val
             THEN upper_bound_loop(p, middle + 1, len - half - 1, val, rd \cup {middle})
             ELSE upper_bound_loop(p, first, half, val, rd \cup {middle})

\* Mutant of lower_bound: std::upper_bound, the first element above val.
upper_bound(p, first, last, val) == upper_bound_loop(p, first, last - first, val, {})

\* std::lower_bound(p + first, p + last, val): the binary search, whatever
\* the order of the elements.  pos is the index returned, rd the indices read.
lower_bound(p, first, last, val) == lower_bound_loop(p, first, last - first, val, {})

value(u, n, t, f, _f) ==
    IF u < 0 THEN [val |-> NaN, rd |-> {}]
    ELSE IF n = 0 THEN [val |-> _f, rd |-> {}]
    ELSE LET ti == lower_bound(t, 0, n, u)
             trd == {<<"t", k>> : k \in ti.rd}
         IN  IF ti.pos = n
             THEN [val |-> _f, rd |-> trd]
             ELSE [val |-> AtF(f, ti.pos), rd |-> trd \cup {<<"f", ti.pos>>}]

---------------------------------------------------------------------------
\* integral, discount, spot

RECURSIVE integral_loop(_, _, _, _, _, _, _, _)
\* The for loop of integral: i, I and the local t_ (here tl) when it ends.
integral_loop(i, I, tl, rd, u, n, t, f) ==
    IF i >= n THEN [i |-> i, I |-> I, tl |-> tl, rd |-> rd]
    ELSE IF ~(AtT(t, i) <= u) THEN [i |-> i, I |-> I, tl |-> tl, rd |-> rd \cup {<<"t", i>>}]
    ELSE integral_loop(i + 1,
                       FAdd(I, FMul(AtF(f, i), Num(AtT(t, i) - tl))),
                       AtT(t, i),
                       rd \cup {<<"t", i>>, <<"f", i>>},
                       u, n, t, f)

\* Mutant of integral: no check of u < 0.
integral_unchecked(u, n, t, f, _f) ==
    LET L == integral_loop(0, Num(0), 0, {}, u, n, t, f)
        past == n = 0 \/ u > AtT(t, n - 1)
        rate == IF past THEN _f ELSE AtF(f, L.i)
    IN  [val |-> FAdd(L.I, FMul(rate, Num(u - L.tl))), rd |-> L.rd]

integral(u, n, t, f, _f) ==
    IF u < 0 THEN [val |-> NaN, rd |-> {}]
    ELSE LET L == integral_loop(0, Num(0), 0, {}, u, n, t, f)
             past == n = 0 \/ u > AtT(t, n - 1)
             rate == IF past THEN _f ELSE AtF(f, L.i)
             rd == L.rd \cup (IF n = 0 THEN {} ELSE {<<"t", n - 1>>})
                        \cup (IF past THEN {} ELSE {<<"f", L.i>>})
         IN  [val |-> FAdd(L.I, FMul(rate, Num(u - L.tl))), rd |-> rd]

discount(u, n, t, f, _f) ==
    LET I == integral(u, n, t, f, _f)
    IN  [val |-> exp(FNeg(I.val)), rd |-> I.rd]

spot(u, n, t, f, _f) ==
    IF u <= AtT(t, 0)
    THEN [val |-> AtF(f, 0), rd |-> {<<"t", 0>>, <<"f", 0>>}]
    ELSE LET I == integral(u, n, t, f, _f)
         IN  [val |-> FDiv(I.val, u), rd |-> I.rd \cup {<<"t", 0>>}]

---------------------------------------------------------------------------
\* present_value, partial_duration.  The cash flows u, c are sequences of
\* length m.

RECURSIVE present_value_loop(_, _, _, _, _, _, _, _, _, _)
present_value_loop(i, p, rd, m, u, c, n, t, f, _f) ==
    IF i >= m THEN [val |-> p, rd |-> rd]
    ELSE LET D == discount(u[i + 1], n, t, f, _f)
         IN  present_value_loop(i + 1, FAdd(p, FMul(Num(c[i + 1]), D.val)),
                                rd \cup D.rd, m, u, c, n, t, f, _f)

RECURSIVE present_value_skip_loop(_, _, _, _, _, _, _, _, _, _)
present_value_skip_loop(i, p, rd, m, u, c, n, t, f, _f) ==
    IF i >= m THEN [val |-> p, rd |-> rd]
    ELSE LET D == discount(u[i + 1], n, t, f, _f)
             q == IF isnan(D.val) THEN p ELSE FAdd(p, FMul(Num(c[i + 1]), D.val))
         IN  present_value_skip_loop(i + 1, q, rd \cup D.rd, m, u, c, n, t, f, _f)

\* Mutant of present_value: a cash flow with no discount factor is skipped.
present_value_skip(m, u, c, n, t, f, _f) ==
    present_value_skip_loop(0, Num(0), {}, m, u, c, n, t, f, _f)

present_value(m, u, c, n, t, f, _f) ==
    present_value_loop(0, Num(0), {}, m, u, c, n, t, f, _f)

RECURSIVE partial_duration_loop(_, _, _, _, _, _, _, _, _, _, _)
partial_duration_loop(i, d, rd, t0, m, u, c, n, t, f, _f) ==
    IF i >= m THEN [val |-> d, rd |-> rd]
    ELSE LET D == discount(u[i + 1], n, t, f, _f)
         IN  partial_duration_loop(i + 1,
                 FSub(d, FMul(FMul(Num(u[i + 1] - t0), Num(c[i + 1])), D.val)),
                 rd \cup D.rd, t0, m, u, c, n, t, f, _f)

\* The index of the first cash flow the sum starts at.
first_cash_flow(m, u, n, t) ==
    IF n = 0 THEN 0 ELSE lower_bound(Ptr(u, 0), 0, m, AtT(t, n - 1)).pos

partial_duration(m, u, c, n, t, f, _f) ==
    LET i0 == first_cash_flow(m, u, n, t)
        t0 == IF n = 0 THEN 0 ELSE AtT(t, n - 1)
        rd0 == IF n = 0 THEN {} ELSE {<<"t", n - 1>>}
    IN  partial_duration_loop(i0, Num(0), rd0, t0, m, u, c, n, t, f, _f)

---------------------------------------------------------------------------
\* The owning curve and the calls made on it.

VARIABLES
    t_,     \* curve::t_, the knot times
    f_,     \* curve::f_, the knot rates
    op,     \* the last call: "curve" (the constructor), "push_back", "monotonic",
            \* "value", "integral", "discount", "spot", "present_value",
            \* "partial_duration"
    arg,    \* the arguments of the last call and what the memory past the end
            \* of the two vectors held during it
    ret,    \* the F the last call returned (0 when it returns no F)
    reads,  \* the elements <<"t" or "f", index>> the last call read
    flag    \* what monotonic returned; for push_back, whether it returned at all

vars == <<t_, f_, op, arg, ret, reads, flag>>

\* u: the query time; ef: the argument _f; cu, cc: the cash flows;
\* gT, gF: the memory past the end of time() and rate();
\* pt, pf: the knot passed to push_back; v: the array given to monotonic.
NoArg ==
    [u |-> 0, ef |-> NaN, cu |-> <<>>, cc |-> <<>>, gT |-> 1, gF |-> NaN,
     pt |-> 0, pf |-> 0, v |-> "t"]

\* size(), time() and rate() of the curve during the call recorded in a.
size == Len(t_)
time(a) == Ptr(t_, a.gT)
rate(a) == Ptr(f_, a.gF)

Init ==
    /\ t_ = <<>>
    /\ f_ = <<>>
    /\ op = "curve"
    /\ arg = NoArg
    /\ ret = Num(0)
    /\ reads = {}
    /\ flag = TRUE

\* ensure(e): returns when e holds; otherwise reports the contract violation
\* and the call that made it goes no further.
ensure(e) == IF e THEN "returns" ELSE "violation"

\* Mutants of push_back_ok: an equal time passes; every time passes.
push_back_ok_equal(tt, _t) == Len(tt) = 0 \/ _t >= tt[Len(tt)]
push_back_ok_any(tt, _t) == TRUE

\* The condition push_back ensures.
push_back_ok(tt, _t) == Len(tt) = 0 \/ _t > tt[Len(tt)]

push_back ==
    \E _t \in Times, _f \in Rates :
        LET e == ensure(push_back_ok(t_, _t))
        IN  /\ (e = "returns") => Len(t_) < MaxN
            /\ op' = "push_back"
            /\ arg' = [NoArg EXCEPT !.pt = _t, !.pf = _f]
            /\ flag' = (e = "returns")
            /\ IF e = "returns"
               THEN /\ t_' = Append(t_, _t)
                    /\ f_' = Append(f_, _f)
               ELSE UNCHANGED <<t_, f_>>
            /\ ret' = Num(0)
            /\ reads' = {}

\* The curve has just been constructed or extended.  The other calls change
\* nothing of the curve, so what they return after any later call is what
\* they return here: they are made here, once per curve, and push_back at
\* any time.
Built == op \in {"curve", "push_back"} /\ flag

\* monotonic(size(), time()) or monotonic(size(), rate()).
CallMonotonic ==
    \E w \in {"t", "f"} :
        /\ Built
        /\ op' = "monotonic"
        /\ arg' = [NoArg EXCEPT !.v = w]
        /\ flag' = monotonic(size, Ptr(IF w = "t" THEN t_ ELSE f_, 0))
        /\ ret' = Num(0)
        /\ reads' = {}
        /\ UNCHANGED <<t_, f_>>

\* What a call on the curve with arguments a returned.
Returns(name, a, r) ==
    /\ op' = name
    /\ arg' = a
    /\ ret' = r.val
    /\ reads' = r.rd
    /\ flag' = TRUE
    /\ UNCHANGED <<t_, f_>>

QueryArgs ==
    {[NoArg EXCEPT !.u = u, !.ef = e, !.gT = gt, !.gF = gf] :
        u \in QueryTimes, e \in ExtRates, gt \in GarbageT, gf \in GarbageF}

CallValue ==
    /\ Built
    /\ \E a \in QueryArgs :
           Returns("value", a, value(a.u, size, time(a), rate(a), a.ef))

CallIntegral ==
    /\ Built
    /\ \E a \in QueryArgs :
           Returns("integral", a, integral(a.u, size, time(a), rate(a), a.ef))

CallDiscount ==
    /\ Built
    /\ \E a \in QueryArgs :
           Returns("discount", a, discount(a.u, size, time(a), rate(a), a.ef))

CallSpot ==
    /\ Built
    /\ \E a \in QueryArgs :
           Returns("spot", a, spot(a.u, size, time(a), rate(a), a.ef))

\* The cash flows of an instrument: m <= MaxM payments <<time, amount>>, in
\* any order.
CashFlows == UNION {[1 .. m -> QueryTimes \X Amounts] : m \in 0 .. MaxM}

CashArgs ==
    {[NoArg EXCEPT !.cu = [i \in DOMAIN cf |-> cf[i][1]],
                   !.cc = [i \in DOMAIN cf |-> cf[i][2]],
                   !.ef = e, !.gF = gf] :
        cf \in CashFlows, e \in ExtRates, gf \in GarbageF}

CallPresentValue ==
    /\ Built
    /\ \E a \in CashArgs :
           Returns("present_value", a,
                   present_value(Len(a.cu), a.cu, a.cc, size, time(a), rate(a), a.ef))

CallPartialDuration ==
    /\ Built
    /\ \E a \in CashArgs :
           Returns("partial_duration", a,
                   partial_duration(Len(a.cu), a.cu, a.cc, size, time(a), rate(a), a.ef))

Next ==
    \/ push_back
    \/ CallMonotonic
    \/ CallValue
    \/ CallIntegral
    \/ CallDiscount
    \/ CallSpot
    \/ CallPresentValue
    \/ CallPartialDuration

Spec == Init /\ [][Next]_vars

---------------------------------------------------------------------------
\* The curve as mathematics, for stating the properties: knots 1..size at
\* times t_[i] with rates f_[i], written without the code's loops and searches.

Knots == 1 .. Len(t_)

StrictlyIncreasing(v) == \A i \in 1 .. (Len(v) - 1) : v[i] < v[i + 1]

Min(S) == CHOOSE x \in S : \A y \in S : x <= y

\* The knots at or after time u.
KnotsFrom(u) == {i \in Knots : t_[i] >= u}

\* The knots at or before time u.
KnotsTo(u) == {i \in Knots : t_[i] <= u}

\* The time of the last knot, 0 for no knots.
LastTime == IF Len(t_) = 0 THEN 0 ELSE t_[Len(t_)]

\* f[k] * (t[k] - t[k-1]), with t[-1] = 0.
Segment(k) == f_[k] * (t_[k] - (IF k = 1 THEN 0 ELSE t_[k - 1]))

RECURSIVE SumSegments(_)
\* The sum of the segments of knots 1..k.
SumSegments(k) == IF k = 0 THEN 0 ELSE SumSegments(k - 1) + Segment(k)

\* The integral of the step function from 0 to u >= 0, extrapolated at e.
Antiderivative(u, e) ==
    LET k == Cardinality(KnotsTo(u))
        last == IF k = 0 THEN 0 ELSE t_[k]
        at == IF Len(t_) = 0 \/ u > LastTime THEN e ELSE Num(f_[Min(KnotsFrom(u))])
    IN  FAdd(Num(SumSegments(k)), FMul(at, Num(u - last)))

\* The discount factor of cash flow i of the last call.
CashDiscount(i) == discount(arg.cu[i], size, time(arg), rate(arg), arg.ef).val

RECURSIVE SumCash(_, _)
\* The sum of g[i] over the cash flows i in S.
SumCash(S, g) ==
    IF S = {} THEN Num(0)
    ELSE LET i == CHOOSE j \in S : \A k \in S : j >= k
         IN  FAdd(g[i], SumCash(S \ {i}, g))

CashFlowIndices == 1 .. Len(arg.cu)

Query == {"value", "integral", "discount", "spot"}

---------------------------------------------------------------------------
\* C1: value(u) for u >= 0 is f[i] for the smallest i with t[i] >= u, and _f
\* when there is none (u past the last knot, or no knots); so value(t[i]) is
\* f[i] at every knot and value(0) is f[0].
C1_value ==
    (op = "value" /\ arg.u >= 0) =>
        /\ ret = (IF KnotsFrom(arg.u) = {} THEN arg.ef
                  ELSE Num(f_[Min(KnotsFrom(arg.u))]))
        /\ \A i \in Knots : arg.u = t_[i] => ret = Num(f_[i])
        /\ (arg.u = 0 /\ Len(t_) >= 1) => ret = Num(f_[1])

\* value was called at the first of two knots with different rates.
C1_witness ==
    /\ op = "value"
    /\ Len(t_) = 2
    /\ arg.u = t_[1]
    /\ f_[1] # f_[2]
    /\ ret = Num(f_[1])

\* C2: integral(u) for u >= 0 is the sum of the segments of the knots with
\* t[k] <= u plus (u - last such t[k]) times _f past the last knot or with no
\* knots, and times the rate of the knot containing u otherwise; so
\* integral(t[i]) is the sum of segments 0..i at every knot, the last included.
C2_integral ==
    (op = "integral" /\ arg.u >= 0) => ret = Antiderivative(arg.u, arg.ef)

\* C3 as stated: for u < 0 each of value, integral, discount and spot
\* returns NaN, and present_value of cash flows with a negative time is NaN.
C3_negative_all ==
    /\ (op \in Query /\ arg.u < 0) => isnan(ret)
    /\ (op = "present_value" /\ \E i \in CashFlowIndices : arg.cu[i] < 0) => isnan(ret)

\* C3 as amended: for u < 0 value, integral and discount return NaN, and
\* present_value of cash flows with a negative time is NaN; spot on a curve
\* with a knot returns f[0].
C3_negative ==
    /\ (op \in {"value", "integral", "discount"} /\ arg.u < 0) => isnan(ret)
    /\ (op = "present_value" /\ \E i \in CashFlowIndices : arg.cu[i] < 0) => isnan(ret)
    /\ (op = "spot" /\ arg.u < 0 /\ Len(t_) >= 1) => ret = Num(f_[1])

\* spot was called with a negative time on a curve of two knots.
C3_witness ==
    /\ op = "spot"
    /\ arg.u < 0
    /\ Len(t_) = 2
    /\ ~isnan(ret)

\* C4: present_value is the sum of c[i] * discount(u[i]), and is NaN when
\* any one discount factor is, whatever its amount and its place in the sum.
C4_present_value ==
    op = "present_value" =>
        /\ ret = SumCash(CashFlowIndices,
                         [i \in CashFlowIndices |-> FMul(Num(arg.cc[i]), CashDiscount(i))])
        /\ (\E i \in CashFlowIndices : isnan(CashDiscount(i))) => isnan(ret)

\* The first of two cash flows pays 0 past the last knot with no _f; the
\* second has a discount factor.
C4_witness ==
    /\ op = "present_value"
    /\ Len(arg.cu) = 2
    /\ Len(t_) >= 1
    /\ arg.cc[1] = 0
    /\ arg.cc[2] # 0
    /\ arg.cu[1] > LastTime
    /\ isnan(arg.ef)
    /\ ~isnan(CashDiscount(2))
    /\ isnan(ret)

\* C5: push_back(_t, _f) returns exactly when the curve is empty or _t is
\* above the last time; it then has added the knot at the end of both
\* vectors, and otherwise has left both as they were.
C5_push_back ==
    [][op' = "push_back" =>
        LET above == Len(t_) = 0 \/ arg'.pt > t_[Len(t_)]
        IN  /\ flag' <=> above
            /\ above => (t_' = Append(t_, arg'.pt) /\ f_' = Append(f_, arg'.pf))
            /\ ~above => (t_' = t_ /\ f_' = f_)]_vars

\* push_back was refused the time of the last knot.
C5_witness ==
    /\ op = "push_back"
    /\ ~flag
    /\ Len(t_) >= 1
    /\ arg.pt = t_[Len(t_)]

\* C6: whatever push_back calls were made, the times are strictly
\* increasing, there are size() rates as there are size() times, and the
\* curve never shrinks.
C6_curve ==
    /\ [](StrictlyIncreasing(t_) /\ Len(f_) = size)
    /\ [][Len(t_') >= Len(t_) /\ Len(f_') >= Len(f_)]_vars

\* A curve of two knots after a refused push_back of an earlier time.
C6_witness ==
    /\ op = "push_back"
    /\ ~flag
    /\ Len(t_) = 2
    /\ arg.pt < t_[2]

\* -(u[i] - t[n-1]) * c[i] * discount(u[i]) for the cash flows of the last call.
DurationTerms ==
    [i \in CashFlowIndices |->
        FNeg(FMul(FMul(Num(arg.cu[i] - LastTime), Num(arg.cc[i])), CashDiscount(i)))]

\* The cash flows at or after the last knot (after it, for strict); every
\* cash flow when there are no knots.
Reached(strict) ==
    IF Len(t_) = 0 THEN CashFlowIndices
    ELSE {i \in CashFlowIndices :
            IF strict THEN arg.cu[i] > LastTime ELSE arg.cu[i] >= LastTime}

\* C7: for cash flows in any order partial_duration is the sum of
\* the terms of the cash flows with u[i] >= t[n-1], of every cash flow (with
\* t[n-1] taken as 0) when there are no knots; a cash flow at exactly t[n-1]
\* contributes zero.
C7_partial_duration_any_order ==
    op = "partial_duration" =>
        /\ ret = SumCash(Reached(FALSE), DurationTerms)
        /\ ret = SumCash(Reached(TRUE), DurationTerms)

\* C8: monotonic(n, v) is true exactly when v[i] < v[i+1] for every adjacent
\* pair (so for every empty and one-element v), and leaves v as it was.
C8_monotonic ==
    [][op' = "monotonic" =>
        LET v == IF arg'.v = "t" THEN t_ ELSE f_
        IN  /\ flag' <=> \A i \in 1 .. (Len(v) - 1) : v[i] < v[i + 1]
            /\ t_' = t_
            /\ f_' = f_]_vars

\* monotonic was false for two equal rates.
C8_witness ==
    /\ op = "monotonic"
    /\ arg.v = "f"
    /\ Len(f_) = 2
    /\ f_[1] = f_[2]
    /\ ~flag

\* What the last call returns when given e for _f and everything else the same.
WithExt(e) ==
    LET a == [arg EXCEPT !.ef = e]
    IN  CASE op = "value" -> value(a.u, size, time(a), rate(a), e).val
          [] op = "integral" -> integral(a.u, size, time(a), rate(a), e).val
          [] op = "discount" -> discount(a.u, size, time(a), rate(a), e).val
          [] op = "present_value" ->
                present_value(Len(a.cu), a.cu, a.cc, size, time(a), rate(a), e).val

\* C9: on a curve with a knot, value, integral and discount at 0 <= u <= t[n-1]
\* (u = t[n-1] included) are not NaN and are the same for every _f; so is
\* present_value of cash flows whose times are all in [0, t[n-1]].
C9_inside_the_curve ==
    /\ (/\ op \in {"value", "integral", "discount"}
        /\ Len(t_) >= 1
        /\ 0 <= arg.u
        /\ arg.u <= LastTime)
          => (~isnan(ret) /\ \A e \in ExtRates : WithExt(e) = ret)
    /\ (/\ op = "present_value"
        /\ Len(t_) >= 1
        /\ \A i \in CashFlowIndices : 0 <= arg.cu[i] /\ arg.cu[i] <= LastTime)
          => (~isnan(ret) /\ \A e \in ExtRates : WithExt(e) = ret)

\* C10: value, integral, discount and spot read t and f only at indices
\* 0 <= k < n.
C10_reads_in_bounds ==
    op \in Query => \A r \in reads : 0 <= r[2] /\ r[2] < Len(t_)

====
